---- MODULE Spec2Model ----
(***************************************************************************)
(* Model of src/check-versions.js (latest revision, lines 266-546): the    *)
(* prototype-kit version report.  run() resolves the two latest versions,  *)
(* pages through the organisation's repositories, inspects each           *)
(* repository's package.json, classifies the declared kit version with    *)
(* the semver library, sorts the two groups and writes index.html.        *)
(*                                                                         *)
(* JavaScript values that can stand where a version is expected are        *)
(* records [k, op, maj, min, pat]:                                         *)
(*   k = "undefined"            the property is absent                     *)
(*   k = "null"                 the literal null                           *)
(*   k = "num"                  a truthy non-string JSON value (4, {...})  *)
(*   k = "str", op = "empty"    the string ""                              *)
(*   k = "str", op = "text"     a string that is no semver range, such as  *)
(*                              "latest" or "github:nhsbsa/kit"            *)
(*   k = "str", op = "*"        the string "*"                             *)
(*   k = "str", op = o          the string o ++ "maj.min.pat" for o one of *)
(*                              "", "^", "~", ">=", ">", "<"               *)
(* Pre-release tags and build metadata are outside the modelled strings.   *)
(***************************************************************************)
EXTENDS Integers, Sequences, FiniteSets, TLC

VARIABLES
    pc,          \* position of run(): "start", "latest", "listing", "inspecting", "done", "exited"
    inflight,    \* families whose fetchLatestVersion request is awaiting its response
    upstream,    \* per family: the response its fetchLatestVersion request received, or NoResponse
    nhsLatest,   \* run(): nhsLatest, or Pending
    govLatest,   \* run(): govLatest, or Pending
    page,        \* getAllRepos: page
    repos,       \* getAllRepos: repos (non-archived descriptors collected so far)
    idx,         \* run(): number of repos the for-loop has taken
    nhsResults,  \* run(): nhsResults
    govResults,  \* run(): govResults
    requests,    \* every network request issued, in order
    served,      \* the listing responses received, in order
    inspected,   \* per repo taken by the loop: the manifest response and what getPackageDetails returned
    written,     \* what fs.writeFileSync put in index.html, or NotWritten
    stderr,      \* lines console.error wrote
    exitCode,    \* -1 while the process runs, else the process exit code
    call,        \* the function applied last in isolation, with its arguments
    ret          \* what that application returned

vars == <<pc, inflight, upstream, nhsLatest, govLatest, page, repos, idx, nhsResults,
          govResults, requests, served, inspected, written, stderr, exitCode,
          call, ret>>

runVars == <<pc, inflight, upstream, nhsLatest, govLatest, page, repos, idx, nhsResults,
             govResults, requests, served, inspected, written, stderr, exitCode>>

(***************************************************************************)
(* Bounds of the explored inputs.                                          *)
(***************************************************************************)
MaxMajor == 2
MaxMinor == 1
MaxPatch == 1
MaxRows == 4
MaxPages == 2
MaxRepos == 2

(***************************************************************************)
(* JavaScript values.                                                      *)
(***************************************************************************)
JsVal(k, op, a, b, c) == [k |-> k, op |-> op, maj |-> a, min |-> b, pat |-> c]
Undef == JsVal("undefined", "", 0, 0, 0)
JsNull == JsVal("null", "", 0, 0, 0)
NonString == JsVal("num", "", 0, 0, 0)
EmptyString == JsVal("str", "empty", 0, 0, 0)
TextString == JsVal("str", "text", 0, 0, 0)
StarString == JsVal("str", "*", 0, 0, 0)
VStr(op, a, b, c) == JsVal("str", op, a, b, c)

RangeOps == {"", "^", "~", ">=", ">", "<"}

\* Every string "<op>maj.min.pat" within the bounds.
RangeStrings ==
    { VStr(o, a, b, c) : o \in RangeOps, a \in 0..MaxMajor, b \in 0..MaxMinor, c \in 0..MaxPatch }

\* Everything a manifest may hold where a version or a range is expected.
AnyValue == RangeStrings \cup {StarString, TextString, EmptyString, NonString, Undef}

\* JavaScript truthiness: undefined, null and "" are falsy.
Truthy(v) == ~(v.k \in {"undefined", "null"} \/ (v.k = "str" /\ v.op = "empty"))

\* a || b
JsOr(a, b) == IF Truthy(a) THEN a ELSE b

(***************************************************************************)
(* The semver library as the script calls it.  A result is a SemVer        *)
(* object, null, or a thrown TypeError.                                    *)
(***************************************************************************)
SemVer(a, b, c) == [t |-> "ver", maj |-> a, min |-> b, pat |-> c]
NoVer == [t |-> "null", maj |-> 0, min |-> 0, pat |-> 0]
Thrown == [t |-> "throw", maj |-> 0, min |-> 0, pat |-> 0]

\* semver.compare(a, b): -1, 0 or 1 by major, then minor, then patch.
semverCompare(a, b) ==
    IF a.maj # b.maj THEN (IF a.maj < b.maj THEN -1 ELSE 1)
    ELSE IF a.min # b.min THEN (IF a.min < b.min THEN -1 ELSE 1)
    ELSE IF a.pat # b.pat THEN (IF a.pat < b.pat THEN -1 ELSE 1)
    ELSE 0

\* semver.rcompare(a, b) is compare(b, a).
semverRcompare(a, b) == semverCompare(b, a)

\* semver.eq(a, b)
semverEq(a, b) == semverCompare(a, b) = 0

\* semver.major(v)
semverMajor(v) == v.maj

\* semver.valid(v) for a string v: the version when v is a plain "maj.min.pat",
\* else null.  Only its truthiness is used.
semverValid(v) == v.k = "str" /\ v.op = ""

\* semver.minVersion(range) for a non-empty string: new Range(range) throws a
\* TypeError for a string that is no range; otherwise the lowest version the
\* range admits, or null when it admits none.
semverMinVersion(v) ==
    CASE v.op = "text" -> Thrown
      [] v.op = "*" -> SemVer(0, 0, 0)
      [] v.op \in {"", "^", "~", ">="} -> SemVer(v.maj, v.min, v.pat)
      [] v.op = ">" -> SemVer(v.maj, v.min, v.pat + 1)
      [] v.op = "<" ->
            IF v.maj = 0 /\ v.min = 0 /\ v.pat = 0 THEN NoVer ELSE SemVer(0, 0, 0)

(***************************************************************************)
(* Status Classifier.                                                      *)
(***************************************************************************)
safeMinVersion(v) ==
    IF ~Truthy(v) \/ v.k # "str" THEN NoVer ELSE semverMinVersion(v)

StatusUnknown == [text |-> "Unknown", className |-> "unknown"]
StatusUpToDate == [text |-> "Up-To-Date", className |-> "uptodate"]
StatusSlightly == [text |-> "Slightly Outdated", className |-> "slightly-outdated"]
StatusOutdated == [text |-> "Outdated", className |-> "outdated"]
\* getStatus did not return: the TypeError of semver.minVersion left it.
StatusThrown == [text |-> "TypeError", className |-> "thrown"]

\* getStatus with the tiers of compareVersions: only a lower patch of the same
\* major.minor is a slight lag.
getStatusPatchLag(repoVersion, latestVersion) ==
    LET repoMin == safeMinVersion(repoVersion)
        latestMin == safeMinVersion(latestVersion)
    IN  IF repoMin = Thrown \/ latestMin = Thrown THEN StatusThrown
        ELSE IF repoMin = NoVer \/ latestMin = NoVer THEN StatusUnknown
        ELSE IF semverEq(repoMin, latestMin) THEN StatusUpToDate
        ELSE IF /\ repoMin.maj = latestMin.maj
                /\ repoMin.min = latestMin.min
                /\ repoMin.pat < latestMin.pat THEN StatusSlightly
        ELSE StatusOutdated

\* getStatus with the major test ahead of the equality test.
getStatusMajorFirst(repoVersion, latestVersion) ==
    LET repoMin == safeMinVersion(repoVersion)
        latestMin == safeMinVersion(latestVersion)
    IN  IF repoMin = Thrown \/ latestMin = Thrown THEN StatusThrown
        ELSE IF repoMin = NoVer \/ latestMin = NoVer THEN StatusUnknown
        ELSE IF semverMajor(repoMin) = semverMajor(latestMin) THEN StatusSlightly
        ELSE IF semverEq(repoMin, latestMin) THEN StatusUpToDate
        ELSE StatusOutdated

getStatus(repoVersion, latestVersion) ==
    LET repoMin == safeMinVersion(repoVersion)
        latestMin == safeMinVersion(latestVersion)
    IN  IF repoMin = Thrown \/ latestMin = Thrown THEN StatusThrown
        ELSE IF repoMin = NoVer \/ latestMin = NoVer THEN StatusUnknown
        ELSE IF semverEq(repoMin, latestMin) THEN StatusUpToDate
        ELSE IF semverMajor(repoMin) = semverMajor(latestMin) THEN StatusSlightly
        ELSE StatusOutdated

(***************************************************************************)
(* Sorting.  A row of a result group is                                    *)
(* [name, version, frontend, lastCommitter, text, className].              *)
(***************************************************************************)
Row(name, version, frontend, lastCommitter, status) ==
    [name |-> name, version |-> version, frontend |-> frontend,
     lastCommitter |-> lastCommitter, text |-> status.text,
     className |-> status.className]

\* compareVersionsDesc with semver.compare in place of semver.rcompare.
compareVersionsAsc(a, b) ==
    LET av == safeMinVersion(a.version)
        bv == safeMinVersion(b.version)
    IN  IF av = Thrown \/ bv = Thrown THEN [thrown |-> TRUE, n |-> 0]
        ELSE IF av = NoVer /\ bv = NoVer THEN [thrown |-> FALSE, n |-> 0]
        ELSE IF av = NoVer THEN [thrown |-> FALSE, n |-> 1]
        ELSE IF bv = NoVer THEN [thrown |-> FALSE, n |-> -1]
        ELSE [thrown |-> FALSE, n |-> semverCompare(av, bv)]

\* The comparator's return value; thrown when semver.minVersion threw in it.
compareVersionsDesc(a, b) ==
    LET av == safeMinVersion(a.version)
        bv == safeMinVersion(b.version)
    IN  IF av = Thrown \/ bv = Thrown THEN [thrown |-> TRUE, n |-> 0]
        ELSE IF av = NoVer /\ bv = NoVer THEN [thrown |-> FALSE, n |-> 0]
        ELSE IF av = NoVer THEN [thrown |-> FALSE, n |-> 1]
        ELSE IF bv = NoVer THEN [thrown |-> FALSE, n |-> -1]
        ELSE [thrown |-> FALSE, n |-> semverRcompare(av, bv)]

\* x put into the sorted s behind the last element the comparator does not
\* place after x.
RECURSIVE InsertRow(_, _)
InsertRow(s, x) ==
    IF s = << >> THEN <<x>>
    ELSE IF compareVersionsDesc(s[Len(s)], x).n > 0
         THEN Append(InsertRow(SubSeq(s, 1, Len(s) - 1), x), s[Len(s)])
         ELSE Append(s, x)

RECURSIVE InsertionSort(_)
InsertionSort(s) ==
    IF s = << >> THEN << >>
    ELSE InsertRow(InsertionSort(SubSeq(s, 1, Len(s) - 1)), s[Len(s)])

\* results.sort(compareVersionsDesc): Array.prototype.sort is stable, so with
\* this comparator its result is that of any stable sort.  An exception of
\* the comparator leaves sort.
ArraySort(s) ==
    IF \E i \in 1..Len(s), j \in 1..Len(s) : i # j /\ compareVersionsDesc(s[i], s[j]).thrown
    THEN [thrown |-> TRUE, rows |-> s]
    ELSE [thrown |-> FALSE, rows |-> InsertionSort(s)]

(***************************************************************************)
(* Manifest Inspector.  A fetch of a JSON document ends in one of          *)
(*   "neterr"   fetch() rejected                                           *)
(*   "http"     a response whose ok is false                               *)
(*   "badjson"  res.json() rejected: the body is not JSON                  *)
(*   "jsonnull" the body is the JSON value null                            *)
(*   "json"     the body is the object doc                                 *)
(***************************************************************************)
NhsKit == "nhsuk-prototype-kit"
GovKit == "govuk-prototype-kit"

Doc(name, version, nhsDep, govDep, nhsFrontend, govFrontend) ==
    [name |-> name, version |-> version, nhsDep |-> nhsDep, govDep |-> govDep,
     nhsFrontend |-> nhsFrontend, govFrontend |-> govFrontend]
NoDoc == Doc("", Undef, Undef, Undef, Undef, Undef)
Response(kind, doc) == [kind |-> kind, doc |-> doc]
NoResponse == Response("none", NoDoc)
FailedResponses == { Response(k, NoDoc) : k \in {"neterr", "http", "badjson", "jsonnull"} }

NoRepo == <<0, 0>>
PkgNull == [isNull |-> TRUE, name |-> NoRepo, nhsKitVersion |-> JsNull,
            govKitVersion |-> JsNull, nhsFrontend |-> Undef, govFrontend |-> Undef]

\* getPackageDetails with the manifest's own name and version ahead of its
\* dependency, as getPackageVersion of the earlier revision had it.
getPackageDetailsNameFirst(repoName, res) ==
    IF res.kind # "json" THEN PkgNull
    ELSE
      LET pkg == res.doc
          nhsKitVersion ==
              IF pkg.name = NhsKit /\ pkg.version.k = "str" /\ semverValid(pkg.version)
              THEN pkg.version ELSE JsOr(pkg.nhsDep, JsNull)
          govKitVersion ==
              IF pkg.name = GovKit /\ pkg.version.k = "str" /\ semverValid(pkg.version)
              THEN pkg.version ELSE JsOr(pkg.govDep, JsNull)
      IN  IF ~Truthy(nhsKitVersion) /\ ~Truthy(govKitVersion) THEN PkgNull
          ELSE [isNull |-> FALSE, name |-> repoName,
                nhsKitVersion |-> nhsKitVersion, govKitVersion |-> govKitVersion,
                nhsFrontend |-> pkg.nhsFrontend, govFrontend |-> pkg.govFrontend]

getPackageDetails(repoName, res) ==
    IF res.kind # "json" THEN PkgNull
    ELSE
      LET pkg == res.doc
          nhsKitFromDeps == pkg.nhsDep
          nhsKitFromLegacy ==
              IF pkg.name = NhsKit /\ pkg.version.k = "str" /\ semverValid(pkg.version)
              THEN pkg.version ELSE JsNull
          nhsKitVersion == JsOr(nhsKitFromDeps, nhsKitFromLegacy)
          govKitVersion ==
              JsOr(pkg.govDep,
                   IF pkg.name = GovKit /\ pkg.version.k = "str" /\ semverValid(pkg.version)
                   THEN pkg.version ELSE JsNull)
      IN  IF ~Truthy(nhsKitVersion) /\ ~Truthy(govKitVersion) THEN PkgNull
          ELSE [isNull |-> FALSE, name |-> repoName,
                nhsKitVersion |-> nhsKitVersion, govKitVersion |-> govKitVersion,
                nhsFrontend |-> pkg.nhsFrontend, govFrontend |-> pkg.govFrontend]

\* getLastCommitter: null when the request fails or the branch has no commit,
\* else commit.commit?.author?.name || commit.author?.login || 'Unknown'.
\* The response's doc carries the author name in version and the login in
\* nhsDep; its name is "none" when the array of commits is empty.
UnknownName == JsVal("str", "Unknown", 0, 0, 0)
CommitDoc(hasCommit, authorName, login) ==
    Doc(IF hasCommit THEN "commit" ELSE "none", authorName, login, Undef, Undef, Undef)
getLastCommitter(res) ==
    IF res.kind # "json" THEN JsNull
    ELSE IF res.doc.name = "none" THEN JsNull
    ELSE JsOr(JsOr(res.doc.version, res.doc.nhsDep), UnknownName)

(***************************************************************************)
(* Version Source Resolver.                                                *)
(***************************************************************************)
\* fetchLatestVersion without the res.ok test: the body of an error response
\* is read as a manifest that has neither dependency nor version.
fetchLatestVersionNoOkTest(res) ==
    IF res.kind = "http" THEN [rejected |-> FALSE, value |-> Undef]
    ELSE IF res.kind # "json" THEN [rejected |-> TRUE, value |-> Undef]
    ELSE IF Truthy(res.doc.nhsDep) THEN [rejected |-> FALSE, value |-> res.doc.nhsDep]
    ELSE [rejected |-> FALSE, value |-> res.doc.version]

fetchLatestVersion(res) ==
    IF res.kind # "json" THEN [rejected |-> TRUE, value |-> Undef]
    ELSE IF Truthy(res.doc.nhsDep) THEN [rejected |-> FALSE, value |-> res.doc.nhsDep]
    ELSE [rejected |-> FALSE, value |-> res.doc.version]

(***************************************************************************)
(* Repository Enumerator.  A listing response is a Response whose kind is  *)
(* one of the kinds above, "nonarray" (JSON that is no array), or "array": *)
(* then len is the number of entries of the page and live the positions of *)
(* its entries that are not archived.                                      *)
(***************************************************************************)
PerPage == 100

Listing(kind, len, live) == [kind |-> kind, len |-> len, live |-> live]

\* The entries of page p: entry i is the repository named <<p, i>>.
PageData(p, res) ==
    [i \in 1..res.len |->
        [name |-> <<p, i>>, default_branch |-> "main", archived |-> i \notin res.live]]

\* The filter left out: every entry of the page is kept.
FilterNothing(data) == data

\* data.filter(repo => !repo.archived)
NotArchived(repo) == ~repo.archived
FilterNotArchived(data) == SelectSeq(data, NotArchived)

(***************************************************************************)
(* Inputs the run is explored with.                                        *)
(***************************************************************************)
Pending == JsVal("pending", "", 0, 0, 0)
NotWritten == [isWritten |-> FALSE, nhs |-> << >>, gov |-> << >>,
               nhsLatest |-> Pending, govLatest |-> Pending]

\* Upstream manifests: a version only; a version and a dependency on the NHS
\* kit; neither.
UpstreamDocs ==
    { Doc(NhsKit, VStr("", 1, 1, 0), Undef, Undef, Undef, Undef),
      Doc(NhsKit, VStr("", 1, 1, 0), VStr("^", 2, 0, 0), Undef, Undef, Undef),
      Doc(NhsKit, Undef, Undef, Undef, Undef, Undef) }
LatestResponses ==
    { Response("http", NoDoc), Response("badjson", NoDoc) }
        \cup { Response("json", d) : d \in UpstreamDocs }

\* Repository manifests.
RunDocs ==
    { Doc("other", VStr("", 1, 0, 0), Undef, Undef, Undef, Undef),
      Doc(NhsKit, VStr("", 1, 1, 0), Undef, Undef, Undef, Undef),
      Doc("other", VStr("", 1, 0, 0), VStr("^", 1, 0, 0), Undef, VStr("", 1, 0, 0), Undef),
      Doc(NhsKit, VStr("", 1, 1, 0), Undef, VStr("^", 2, 0, 0), Undef, Undef),
      Doc("other", VStr("", 1, 0, 0), VStr("~", 0, 1, 0), VStr("", 1, 1, 0), Undef, Undef),
      Doc(GovKit, VStr("", 2, 0, 0), Undef, VStr("^", 1, 1, 0), Undef, Undef),
      Doc("other", VStr("", 1, 0, 0), TextString, Undef, Undef, Undef),
      Doc("other", VStr("", 1, 0, 0), VStr("^", 1, 0, 0), TextString, Undef, Undef) }
ManifestResponses ==
    { Response("http", NoDoc), Response("neterr", NoDoc), Response("badjson", NoDoc) }
        \cup { Response("json", d) : d \in RunDocs }
CommitResponses == { Response("json", CommitDoc(TRUE, TextString, Undef)) }

PageLens == {0, 40, PerPage}
LivePositions == {1, 2}
ListResponses ==
    { Listing(k, 0, {}) : k \in {"http", "nonarray"} }
        \cup UNION { { Listing("array", n, l) : l \in SUBSET (LivePositions \cap 1..n) } :
                     n \in PageLens }

Request(kind, family, p, repo) == [kind |-> kind, family |-> family, page |-> p, repo |-> repo]

(***************************************************************************)
(* run()                                                                   *)
(***************************************************************************)
Init ==
    /\ pc = "start"
    /\ inflight = {}
    /\ upstream = [f \in {"nhs", "gov"} |-> NoResponse]
    /\ nhsLatest = Pending
    /\ govLatest = Pending
    /\ page = 1
    /\ repos = << >>
    /\ idx = 0
    /\ nhsResults = << >>
    /\ govResults = << >>
    /\ requests = << >>
    /\ served = << >>
    /\ inspected = << >>
    /\ written = NotWritten
    /\ stderr = << >>
    /\ exitCode = -1
    /\ call = [fn |-> "none"]
    /\ ret = [fn |-> "none"]

\* The catch handler without process.exit(1): the process ends with code 0.
AbortExitZero(message) ==
    /\ stderr' = Append(stderr, message)
    /\ exitCode' = 0
    /\ pc' = "exited"

\* run().catch: console.error, then process.exit(1).
Abort(message) ==
    /\ stderr' = Append(stderr, message)
    /\ exitCode' = 1
    /\ pc' = "exited"

\* run() begins: Promise.all issues both fetchLatestVersion requests.
StartRun ==
    /\ pc = "start"
    /\ pc' = "latest"
    /\ inflight' = {"nhs", "gov"}
    /\ requests' = requests \o <<Request("latest", "nhs", 0, NoRepo),
                                 Request("latest", "gov", 0, NoRepo)>>
    /\ UNCHANGED <<upstream, nhsLatest, govLatest, page, repos, idx, nhsResults,
                   govResults, served, inspected, written, stderr, exitCode, call, ret>>

\* The response of one fetchLatestVersion arrives.  A rejection rejects
\* Promise.all at once; the second fulfilment lets run() go on to getAllRepos.
LatestResponse ==
    /\ pc = "latest"
    /\ \E f \in inflight, res \in LatestResponses :
         LET r == fetchLatestVersion(res)
         IN  /\ inflight' = inflight \ {f}
             /\ upstream' = [upstream EXCEPT ![f] = res]
             /\ IF r.rejected
                THEN /\ Abort("Failed to fetch template version")
                     /\ UNCHANGED <<nhsLatest, govLatest>>
                ELSE /\ nhsLatest' = IF f = "nhs" THEN r.value ELSE nhsLatest
                     /\ govLatest' = IF f = "gov" THEN r.value ELSE govLatest
                     /\ pc' = IF inflight' = {} THEN "listing" ELSE "latest"
                     /\ UNCHANGED <<stderr, exitCode>>
    /\ UNCHANGED <<page, repos, idx, nhsResults, govResults, requests, served,
                   inspected, written, call, ret>>

\* getAllRepos: one iteration of the while loop, the request and its response.
ListPage ==
    /\ pc = "listing"
    /\ \E res \in ListResponses :
         /\ res.kind = "array" =>
               /\ page = MaxPages => res.len < PerPage
               /\ Len(repos) + Cardinality(res.live) <= MaxRepos
         /\ requests' = Append(requests, Request("list", "", page, NoRepo))
         /\ served' = Append(served, res)
         /\ IF res.kind # "array"
            THEN /\ Abort("GitHub API error")
                 /\ UNCHANGED <<page, repos>>
            ELSE /\ repos' = repos \o FilterNotArchived(PageData(page, res))
                 /\ IF res.len < PerPage
                    THEN pc' = "inspecting" /\ page' = page
                    ELSE pc' = "listing" /\ page' = page + 1
                 /\ UNCHANGED <<stderr, exitCode>>
    /\ UNCHANGED <<inflight, upstream, nhsLatest, govLatest, idx, nhsResults,
                   govResults, inspected, written, call, ret>>

\* One iteration of the for loop of run().
InspectRepo ==
    /\ pc = "inspecting"
    /\ idx < Len(repos)
    /\ \E mres \in ManifestResponses, cres \in CommitResponses :
         LET repo == repos[idx + 1]
             pkg == getPackageDetails(repo.name, mres)
             lastCommitter == getLastCommitter(cres)
             nhsStatus == getStatus(pkg.nhsKitVersion, nhsLatest)
             govStatus == getStatus(pkg.govKitVersion, govLatest)
             nhsRow == Row(repo.name, pkg.nhsKitVersion, pkg.nhsFrontend, lastCommitter, nhsStatus)
             govRow == Row(repo.name, pkg.govKitVersion, pkg.govFrontend, lastCommitter, govStatus)
             nhsThrows == Truthy(pkg.nhsKitVersion) /\ nhsStatus = StatusThrown
             govThrows == Truthy(pkg.govKitVersion) /\ govStatus = StatusThrown
         IN  /\ idx' = idx + 1
             /\ inspected' = Append(inspected, [res |-> mres, pkg |-> pkg])
             /\ IF pkg.isNull
                THEN /\ requests' = Append(requests, Request("manifest", "", 0, repo.name))
                     /\ UNCHANGED <<pc, nhsResults, govResults, stderr, exitCode>>
                ELSE /\ requests' = requests \o <<Request("manifest", "", 0, repo.name),
                                                  Request("commits", "", 0, repo.name)>>
                     /\ nhsResults' =
                           IF Truthy(pkg.nhsKitVersion) /\ ~nhsThrows
                           THEN Append(nhsResults, nhsRow) ELSE nhsResults
                     /\ govResults' =
                           IF Truthy(pkg.govKitVersion) /\ ~nhsThrows /\ ~govThrows
                           THEN Append(govResults, govRow) ELSE govResults
                     /\ IF nhsThrows \/ govThrows
                        THEN Abort("Invalid comparator")
                        ELSE UNCHANGED <<pc, stderr, exitCode>>
    /\ UNCHANGED <<inflight, upstream, nhsLatest, govLatest, page, repos, served,
                   written, call, ret>>

\* The sort and the write inside the for loop instead of after it: the report
\* is written as soon as one repository has been taken.
WriteReportInLoop ==
    /\ pc = "inspecting"
    /\ idx = Len(repos) \/ idx >= 1
    /\ nhsResults' = ArraySort(nhsResults).rows
    /\ govResults' = ArraySort(govResults).rows
    /\ written' = [isWritten |-> TRUE, nhs |-> nhsResults', gov |-> govResults',
                   nhsLatest |-> nhsLatest, govLatest |-> govLatest]
    /\ pc' = "done"
    /\ exitCode' = 0
    /\ UNCHANGED <<inflight, upstream, nhsLatest, govLatest, page, repos, idx,
                   requests, served, inspected, stderr, call, ret>>

\* After the loop: sort both groups, render and write index.html; the process
\* then ends with code 0.  An exception of a sort reaches run().catch.
WriteReport ==
    /\ pc = "inspecting"
    /\ idx = Len(repos)
    /\ IF ArraySort(nhsResults).thrown
       THEN /\ Abort("Invalid comparator")
            /\ UNCHANGED <<nhsResults, govResults, written>>
       ELSE IF ArraySort(govResults).thrown
       THEN /\ Abort("Invalid comparator")
            /\ nhsResults' = ArraySort(nhsResults).rows
            /\ UNCHANGED <<govResults, written>>
       ELSE /\ nhsResults' = ArraySort(nhsResults).rows
            /\ govResults' = ArraySort(govResults).rows
            /\ written' = [isWritten |-> TRUE, nhs |-> nhsResults', gov |-> govResults',
                           nhsLatest |-> nhsLatest, govLatest |-> govLatest]
            /\ pc' = "done"
            /\ exitCode' = 0
            /\ UNCHANGED stderr
    /\ UNCHANGED <<inflight, upstream, nhsLatest, govLatest, page, repos, idx,
                   requests, served, inspected, call, ret>>

Next == StartRun \/ LatestResponse \/ ListPage \/ InspectRepo \/ WriteReport

Spec == Init /\ [][Next]_vars

(***************************************************************************)
(* The functions applied in isolation to bounded inputs: one application   *)
(* per behaviour, call and ret holding its arguments and its result.       *)
(***************************************************************************)
\* Versions of the rows given to the sort: two strings that resolve to 1.0.0,
\* lower and higher versions, and two values that do not resolve.
SortValues ==
    { VStr("", 1, 0, 0), VStr("^", 1, 0, 0), VStr("", 0, 1, 0), VStr(">", 1, 0, 0),
      NonString, VStr("<", 0, 0, 0) }

\* The groups given to the sort: row i is named <<0, i>>, its position.
SortInputs ==
    UNION { { [i \in 1..n |-> Row(<<0, i>>, f[i], Undef, JsNull, getStatus(f[i], VStr("", 1, 0, 0)))] :
                f \in [1..n -> SortValues] } : n \in 0..MaxRows }

DocValues ==
    { Undef, EmptyString, NonString, TextString, VStr("", 1, 0, 0), VStr("^", 1, 1, 0) }
InspectResponses ==
    FailedResponses
        \cup { Response("json", Doc(n, v, d1, d2, Undef, Undef)) :
                 n \in {NhsKit, GovKit, "other"}, v \in DocValues,
                 d1 \in DocValues, d2 \in DocValues }
UpstreamResponses ==
    FailedResponses
        \cup { Response("json", Doc(n, v, d1, d2, Undef, Undef)) :
                 n \in {NhsKit, GovKit}, v \in DocValues,
                 d1 \in DocValues, d2 \in DocValues }
CommitterResponses ==
    FailedResponses
        \cup { Response("json", CommitDoc(h, a, l)) :
                 h \in BOOLEAN, a \in {Undef, TextString}, l \in {Undef, TextString} }

InitFn == Init

CallGetStatus ==
    /\ call.fn = "none"
    /\ \E d \in AnyValue, l \in AnyValue :
         /\ call' = [fn |-> "getStatus", repoVersion |-> d, latestVersion |-> l]
         /\ ret' = getStatus(d, l)
    /\ UNCHANGED runVars

CallSort ==
    /\ call.fn = "none"
    /\ \E rows \in SortInputs :
         /\ call' = [fn |-> "sort", rows |-> rows]
         /\ ret' = ArraySort(rows)
    /\ UNCHANGED runVars

CallGetPackageDetails ==
    /\ call.fn = "none"
    /\ \E res \in InspectResponses :
         /\ call' = [fn |-> "getPackageDetails", repoName |-> <<1, 1>>, res |-> res]
         /\ ret' = getPackageDetails(<<1, 1>>, res)
    /\ UNCHANGED runVars

CallFetchLatestVersion ==
    /\ call.fn = "none"
    /\ \E url \in {"nhs", "gov"}, res \in UpstreamResponses :
         /\ call' = [fn |-> "fetchLatestVersion", url |-> url, res |-> res]
         /\ ret' = fetchLatestVersion(res)
    /\ UNCHANGED runVars

CallGetLastCommitter ==
    /\ call.fn = "none"
    /\ \E res \in CommitterResponses :
         /\ call' = [fn |-> "getLastCommitter", res |-> res]
         /\ ret' = getLastCommitter(res)
    /\ UNCHANGED runVars

NextFn ==
    CallGetStatus \/ CallSort \/ CallGetPackageDetails \/ CallFetchLatestVersion
        \/ CallGetLastCommitter

SpecFn == InitFn /\ [][NextFn]_vars

(***************************************************************************)
(* Properties.                                                             *)
(***************************************************************************)
\* A declared version that is no semantic version or range: a value that is
\* no string, the empty string, or a string that is no range.
Malformed(v) == v.k # "str" \/ v.op \in {"empty", "text"}

\* The version a value resolves to, when it resolves to one.
Resolvable(v) == safeMinVersion(v).t = "ver"
ResolvedMin(v) == safeMinVersion(v)

\* C1: for every malformed declared version getStatus returns the Unknown
\* classification and does not throw.
C1_MalformedIsUnknown ==
    (call.fn = "getStatus" /\ Malformed(call.repoVersion)) => ret = StatusUnknown

\* C2: a declared version whose resolved minimum has the major of latest and
\* another minor or patch, lower or higher, is classified SlightlyOutdated.
C2_SameMajorIsSlightlyOutdated ==
    (/\ call.fn = "getStatus"
     /\ Resolvable(call.repoVersion)
     /\ Resolvable(call.latestVersion)
     /\ ResolvedMin(call.repoVersion).maj = ResolvedMin(call.latestVersion).maj
     /\ \/ ResolvedMin(call.repoVersion).min # ResolvedMin(call.latestVersion).min
        \/ ResolvedMin(call.repoVersion).pat # ResolvedMin(call.latestVersion).pat)
    => ret = StatusSlightly

\* A range of latest's major whose resolved minimum is above latest was
\* classified SlightlyOutdated.
C2_Witness ==
    /\ call.fn = "getStatus"
    /\ call.repoVersion = VStr("^", 1, 1, 0)
    /\ call.latestVersion = VStr("", 1, 0, 1)
    /\ ret = StatusSlightly

\* C3: a declared version whose resolved minimum equals latest, be it a
\* concrete version or a range, is classified UpToDate.
C3_EqualIsUpToDate ==
    (/\ call.fn = "getStatus"
     /\ Resolvable(call.repoVersion)
     /\ Resolvable(call.latestVersion)
     /\ ResolvedMin(call.repoVersion).maj = ResolvedMin(call.latestVersion).maj
     /\ ResolvedMin(call.repoVersion).min = ResolvedMin(call.latestVersion).min
     /\ ResolvedMin(call.repoVersion).pat = ResolvedMin(call.latestVersion).pat)
    => ret = StatusUpToDate

\* A range whose resolved minimum is the concrete latest was classified
\* UpToDate.
C3_Witness ==
    /\ call.fn = "getStatus"
    /\ call.repoVersion = VStr("^", 1, 1, 0)
    /\ call.latestVersion = VStr("", 1, 1, 0)
    /\ ret = StatusUpToDate

\* What the manifest doc holds for a family: the dependency on the kit, and
\* the manifest's own version when the manifest is named as the kit.
SelfDeclares(doc, kit) == doc.name = kit /\ semverValid(doc.version)

\* C7 as claimed: a manifest named as the tracked package and carrying a
\* version has that version reported for the family, whatever its
\* dependencies say.
C7_SelfDeclaredVersionWins ==
    (call.fn = "getPackageDetails" /\ call.res.kind = "json") =>
        /\ SelfDeclares(call.res.doc, NhsKit) => ret.nhsKitVersion = call.res.doc.version
        /\ SelfDeclares(call.res.doc, GovKit) => ret.govKitVersion = call.res.doc.version

\* C7 as amended: for each family the dependency on the tracked package, when
\* the manifest has a non-empty one, is the declared version reported, also
\* when the manifest is named as the package and carries a version; the
\* self-declared version is reported only when there is no such dependency,
\* the manifest is named as the package and its version is a valid semantic
\* version.
C7_DependencyRangeWins ==
    (call.fn = "getPackageDetails" /\ call.res.kind = "json") =>
        /\ Truthy(call.res.doc.nhsDep) =>
              ~ret.isNull /\ ret.nhsKitVersion = call.res.doc.nhsDep
        /\ Truthy(call.res.doc.govDep) =>
              ~ret.isNull /\ ret.govKitVersion = call.res.doc.govDep
        /\ (~Truthy(call.res.doc.nhsDep) /\ SelfDeclares(call.res.doc, NhsKit)) =>
              ~ret.isNull /\ ret.nhsKitVersion = call.res.doc.version
        /\ (~Truthy(call.res.doc.govDep) /\ SelfDeclares(call.res.doc, GovKit)) =>
              ~ret.isNull /\ ret.govKitVersion = call.res.doc.version

\* A manifest named as the GOV.UK kit, with a version and another range in its
\* dependency on the GOV.UK kit, was inspected: the range was reported.
C7_Witness ==
    /\ call.fn = "getPackageDetails"
    /\ call.res.kind = "json"
    /\ call.res.doc.name = GovKit
    /\ call.res.doc.version = VStr("", 1, 0, 0)
    /\ call.res.doc.govDep = VStr("^", 1, 1, 0)
    /\ ret.govKitVersion = VStr("^", 1, 1, 0)

\* A row whose version resolves to no version.
Unresolvable(row) == safeMinVersion(row.version) = NoVer
SameRows(a, b) ==
    /\ Len(a) = Len(b)
    /\ \A i \in 1..Len(a) : \E j \in 1..Len(b) : a[i] = b[j]

\* C10: the sort of a group puts every resolvable row ahead of every
\* unresolvable one, the resolvable rows in non-increasing order of resolved
\* minimum, and keeps rows of equal resolved minimum, and the unresolvable
\* rows, in their original relative order (a row's name is its original
\* position).
C10_SortDescendingStable ==
    call.fn = "sort" =>
        /\ ~ret.thrown
        /\ SameRows(call.rows, ret.rows)
        /\ \A i \in 1..Len(ret.rows), j \in 1..Len(ret.rows) :
              i < j =>
                LET a == ret.rows[i]
                    b == ret.rows[j]
                IN  /\ Unresolvable(a) => Unresolvable(b)
                    /\ (~Unresolvable(a) /\ ~Unresolvable(b)) =>
                          semverCompare(ResolvedMin(a.version), ResolvedMin(b.version)) >= 0
                    /\ (\/ Unresolvable(a) /\ Unresolvable(b)
                        \/ /\ ~Unresolvable(a)
                           /\ ~Unresolvable(b)
                           /\ semverCompare(ResolvedMin(a.version), ResolvedMin(b.version)) = 0)
                       => a.name[2] < b.name[2]

\* A group of an unresolvable row, a lower version and two strings of one
\* higher resolved version, in that order, was sorted: the higher two lead in
\* their original order, the unresolvable row trails.
C10_Witness ==
    /\ call.fn = "sort"
    /\ Len(call.rows) = 4
    /\ call.rows[1].version = NonString
    /\ call.rows[2].version = VStr("", 0, 1, 0)
    /\ call.rows[3].version = VStr("^", 1, 0, 0)
    /\ call.rows[4].version = VStr("", 1, 0, 0)
    /\ ret.rows[1].name = <<0, 3>>
    /\ ret.rows[2].name = <<0, 4>>
    /\ ret.rows[3].name = <<0, 2>>
    /\ ret.rows[4].name = <<0, 1>>

\* The listing requests issued, in order.
IsListRequest(r) == r.kind = "list"
ListRequests == SelectSeq(requests, IsListRequest)
IsRepoRequest(r) == r.kind \in {"manifest", "commits"}
RepoRequests == SelectSeq(requests, IsRepoRequest)

\* The entries at the positions live of page p, in the order of the page.
RECURSIVE LiveEntries(_, _)
LiveEntries(p, live) ==
    IF live = {} THEN << >>
    ELSE LET m == CHOOSE x \in live : \A y \in live : y <= x
         IN  Append(LiveEntries(p, live \ {m}),
                    [name |-> <<p, m>>, default_branch |-> "main", archived |-> FALSE])

\* The non-archived entries of the first k pages served.
RECURSIVE NonArchivedOfPages(_)
NonArchivedOfPages(k) ==
    IF k = 0 THEN << >>
    ELSE NonArchivedOfPages(k - 1) \o LiveEntries(k, served[k].live)

\* getAllRepos has returned.
EnumerationDone ==
    /\ pc \notin {"start", "latest", "listing"}
    /\ served # << >>
    /\ served[Len(served)].kind = "array"

\* C4: the listing requests carry the page numbers 1, 2, ... in order, one per
\* response; a request follows only a page of exactly PerPage entries; and
\* when getAllRepos has returned, the last page had fewer entries and repos
\* holds exactly the non-archived entries of the pages, in order.
C4_PagesInOrderUntilShortPage ==
    /\ Len(ListRequests) = Len(served)
    /\ \A i \in 1..Len(ListRequests) : ListRequests[i].page = i
    /\ \A i \in 1..(Len(served) - 1) : served[i].kind = "array" /\ served[i].len = PerPage
    /\ EnumerationDone =>
          /\ served[Len(served)].len < PerPage
          /\ repos = NonArchivedOfPages(Len(served))

\* 100 entries on page 1 and 40 on page 2, one of each not archived: two
\* requests were made and the two entries returned.
C4_Witness ==
    /\ pc = "inspecting"
    /\ Len(served) = 2
    /\ served[1] = Listing("array", PerPage, {2})
    /\ served[2] = Listing("array", 40, {1})
    /\ Len(ListRequests) = 2
    /\ Len(repos) = 2
    /\ repos[1].name = <<1, 2>>
    /\ repos[2].name = <<2, 1>>

\* C5: a listing response that is not a success with an array body is the
\* last one: no page is requested after it, no manifest is requested or
\* inspected, the report is not written, the failure reason is on the error
\* stream and the process has exited with code 1.
C5_ListingFailureAborts ==
    \A i \in 1..Len(served) :
        served[i].kind # "array" =>
            /\ i = Len(served)
            /\ Len(ListRequests) = i
            /\ RepoRequests = << >>
            /\ inspected = << >>
            /\ ~written.isWritten
            /\ stderr = <<"GitHub API error">>
            /\ exitCode = 1
            /\ pc = "exited"

\* The second page came back with a body that is no array.
C5_Witness ==
    /\ Len(served) = 2
    /\ served[1] = Listing("array", PerPage, {1})
    /\ served[2].kind = "nonarray"
    /\ exitCode = 1

\* The row of the repository with this name in a group, if any.
HasRow(results, name) == \E j \in 1..Len(results) : results[j].name = name

\* C6: a repository whose manifest request failed, threw or returned a body
\* that is not JSON is inspected as null and has no row, and the run goes on
\* to write the report and exit with code 0.
C6_FailedManifestIsSkipped ==
    \A i \in 1..Len(inspected) :
        inspected[i].res.kind # "json" =>
            /\ inspected[i].pkg.isNull
            /\ ~HasRow(nhsResults, repos[i].name)
            /\ ~HasRow(govResults, repos[i].name)
            /\ exitCode # 1
            /\ pc \in {"inspecting", "done"}
            /\ pc = "done" => written.isWritten /\ exitCode = 0

\* The manifest matches a family: it depends on the kit or is the kit.
MatchesFamily(doc, kit, dep) == Truthy(dep) \/ SelfDeclares(doc, kit)

\* C8: a repository whose manifest matches both families has a declared
\* version captured for each, and a row in each group classified against that
\* group's latest version.
C8_BothFamiliesReported ==
    \A i \in 1..Len(inspected) :
        LET e == inspected[i]
        IN  (/\ e.res.kind = "json"
             /\ MatchesFamily(e.res.doc, NhsKit, e.res.doc.nhsDep)
             /\ MatchesFamily(e.res.doc, GovKit, e.res.doc.govDep))
            => /\ Truthy(e.pkg.nhsKitVersion)
               /\ Truthy(e.pkg.govKitVersion)
               /\ \E j \in 1..Len(nhsResults) :
                     /\ nhsResults[j].name = repos[i].name
                     /\ nhsResults[j].version = e.pkg.nhsKitVersion
                     /\ nhsResults[j].text = getStatus(e.pkg.nhsKitVersion, nhsLatest).text
               /\ \E j \in 1..Len(govResults) :
                     /\ govResults[j].name = repos[i].name
                     /\ govResults[j].version = e.pkg.govKitVersion
                     /\ govResults[j].text = getStatus(e.pkg.govKitVersion, govLatest).text

\* A latest-version lookup ended without a version source: no response yet,
\* an error response, or a body that is not JSON.
LookupFulfilled(f) == upstream[f].kind = "json"
LookupRejected(f) == upstream[f].kind \notin {"none", "json"}

VersionString(v) == VStr("", v.maj, v.min, v.pat)

\* The upstream manifest's dependency on the package its URL is that of.
SelfReference(url, doc) == IF url = "nhs" THEN doc.nhsDep ELSE doc.govDep

\* C11: an upstream manifest that depends on its own tracked package makes
\* the resolver return the resolved minimum version of that range, ahead of
\* the manifest's version field; one that does not makes it return the
\* version field.
C11_ResolverReturnsResolvedMinimum ==
    (call.fn = "fetchLatestVersion" /\ call.res.kind = "json") =>
        LET dep == SelfReference(call.url, call.res.doc)
        IN  /\ ~ret.rejected
            /\ (Truthy(dep) /\ Resolvable(dep)) =>
                  ret.value = VersionString(ResolvedMin(dep))
            /\ ~Truthy(dep) => ret.value = call.res.doc.version

\* The manifest requests issued, in order.
IsManifestRequest(r) == r.kind = "manifest"
ManifestRequests == SelectSeq(requests, IsManifestRequest)

\* The entry named name = <<p, i>> of the pages served is archived.
Archived(name) == name[2] \notin served[name[1]].live

\* C12, in the states: a written report means that getAllRepos has returned,
\* that the loop has taken every repository it returned, and that the run is
\* over; each repository taken has had exactly one manifest request, in the
\* order of repos; and no archived entry has a manifest request or a row.
C12_State ==
    /\ written.isWritten =>
          /\ EnumerationDone
          /\ idx = Len(repos)
          /\ Len(inspected) = Len(repos)
          /\ pc = "done"
          /\ written.nhs = nhsResults
          /\ written.gov = govResults
    /\ Len(inspected) = idx
    /\ Len(ManifestRequests) = idx
    /\ \A i \in 1..Len(ManifestRequests) :
          /\ ManifestRequests[i].repo = repos[i].name
          /\ ~Archived(ManifestRequests[i].repo)
    /\ \A i \in 1..Len(repos), j \in 1..Len(repos) :
          repos[i].name = repos[j].name => i = j
    /\ \A i \in 1..Len(nhsResults) : ~Archived(nhsResults[i].name)
    /\ \A i \in 1..Len(govResults) : ~Archived(govResults[i].name)

\* C12, in the steps: once the report is written neither it nor the list of
\* requests changes.
C12_Step ==
    written.isWritten => (written' = written /\ requests' = requests)

\* C12: the report is written at most once, only after the enumeration is
\* complete and every enumerated repository was inspected exactly once; no
\* network request follows the write; an archived repository is never
\* inspected and has no row in the report.
C12_WriteIsTerminal == [](C12_State) /\ [][C12_Step]_vars

\* Two pages with archived entries gave two repositories; both were inspected,
\* one has a row, and the report was written.
C12_Witness ==
    /\ written.isWritten
    /\ Len(served) = 2
    /\ served[1] = Listing("array", PerPage, {2})
    /\ served[2] = Listing("array", 40, {2})
    /\ Len(inspected) = 2
    /\ Len(ManifestRequests) = 2
    /\ Len(written.nhs) + Len(written.gov) >= 1

====
